---- MODULE Spec2Model ----
(***************************************************************************)
(* Model of the ubuntu-desktop-versions operator charm: the event handlers *)
(* of src/src/charm.py and the Versions and Apache adapters they drive     *)
(* (src/src/ubuntu_desktop_versions.py, src/src/apache.py).                *)
(*                                                                         *)
(* One handler runs at a time (the framework dispatches events serially).  *)
(* pc is the position inside the running handler; every external command  *)
(* is one step whose exit is chosen nondeterministically.                  *)
(* The objects built in __init__ (charm.py:23-41) are taken as built, the  *)
(* way the unit tests build them (Versions() without arguments).           *)
(***************************************************************************)
EXTENDS Naturals, Integers, Sequences, FiniteSets, TLC

----------------------------------------------------------------------------
(* Bounds of the model *)

\* number of events dispatched in one behaviour
MaxEvents == 2

\* number of commits pushed upstream in one behaviour
MaxRev == 1

----------------------------------------------------------------------------
(* Program constants *)

PACKAGES == <<"python3-launchpadlib", "python3-apt", "python3-requests",
              "python3-yaml", "git">>

MODULES == <<"headers", "deflate", "expires">>

OUTPUT_DIR == "/var/www/html/versions"

LOG_DIR == "/var/log/ubuntu-desktop-versions"

DefaultDomain == "localhost"

DefaultPort == 80

\* the fixed job table src/crontab installed by `crontab src/crontab`
JobSpec == "src/crontab"

\* a job table left by somebody else; no job table at all
OtherJobs == "other entries"

NoJobs == "no crontab"

\* the template apache-vhost.conf, as a sequence of text pieces with the
\* two substitution points of string.Template
VHOST_TEMPLATE == <<"<VirtualHost *:", "${port}", ">", "ServerName ", "${domain}",
                    "DocumentRoot /var/www/html/versions", "</VirtualHost>">>

\* content of VHOST_FILE when the file does not exist
NoFile == <<"(no file)">>

\* content of VHOST_FILE written by something else than this charm
ForeignDoc == <<"# written by hand">>

----------------------------------------------------------------------------
(* Inputs *)

\* the domains the operator sets; DefaultDomain is what an unset domain reads as
Domains == {"example.com"}

Ports == {80, 8080}

\* the charm configuration: `keys` are the options that are set
Configs == { c \in [keys : SUBSET {"domain", "port"},
                     domain : Domains \cup {DefaultDomain}, port : Ports] :
               /\ c.domain = (IF "domain" \in c.keys THEN c.domain ELSE DefaultDomain)
               /\ ("domain" \in c.keys => c.domain \in Domains)
               /\ ("port" \notin c.keys => c.port = DefaultPort) }

\* the default is returned whether or not the option is set
ConfigGet_AlwaysDefault(c, key, default) == default

\* self.config.get(key, default)
ConfigGet(c, key, default) == IF key \in c.keys THEN c[key] ELSE default

\* the events the framework delivers; stop is delivered but not observed
Events == {"install", "start", "stop", "config_changed", "refresh_reports_action",
           "update_checkout_action", "ingress_ready", "ingress_revoked"}

\* exit of a command run without timeout
Exits == {"ok", "nonzero"}

\* exit of a command run with timeout=SHORT_TIMEOUT
ShortExits == {"ok", "nonzero", "timeout"}

----------------------------------------------------------------------------
(* Unit status values *)

MaintenanceStatus(msg) == <<"maintenance", msg>>

BlockedStatus(msg) == <<"blocked", msg>>

ActiveStatus == <<"active", "">>

UnknownStatus == <<"unknown", "">>

----------------------------------------------------------------------------
(* Pure functions *)

\* the port placeholder is left as it is
SubstitutePiece_KeepingPort(piece, domain, port) ==
    IF piece = "${domain}" THEN domain
    ELSE piece

\* string.Template.substitute(domain=domain, port=port) on one piece
SubstitutePiece(piece, domain, port) ==
    IF piece = "${domain}" THEN domain
    ELSE IF piece = "${port}" THEN ToString(port)
    ELSE piece

\* the document is rendered for port 80 whatever the port
build_vhost_config_FixedPort(domain, port) ==
    [i \in 1..Len(VHOST_TEMPLATE) |-> SubstitutePiece(VHOST_TEMPLATE[i], domain, 80)]

\* Apache.build_vhost_config
build_vhost_config(domain, port) ==
    [i \in 1..Len(VHOST_TEMPLATE) |-> SubstitutePiece(VHOST_TEMPLATE[i], domain, port)]

IsSpace(tok) == tok \in {"\n", " "}

RECURSIVE LStrip(_)
LStrip(s) == IF s # <<>> /\ IsSpace(Head(s)) THEN LStrip(Tail(s)) ELSE s

RECURSIVE RStrip(_)
RStrip(s) == IF s # <<>> /\ IsSpace(s[Len(s)]) THEN RStrip(SubSeq(s, 1, Len(s) - 1)) ELSE s

\* the output is returned with its trailing newline
Strip_Nothing(s) == s

\* str.strip()
Strip(s) == LStrip(RStrip(s))

\* the describe query names the revision of the clone whatever was pulled
DescribeStdout_Stale(co) ==
    <<"g", "0">> \o (IF co.dirty THEN <<"-dirty">> ELSE <<>>) \o <<"\n">>

\* stdout of `git describe --tags --always --dirty` on checkout co
DescribeStdout(co) ==
    <<"g", ToString(co.rev)>> \o (IF co.dirty THEN <<"-dirty">> ELSE <<>>) \o <<"\n">>

\* the document is written only when there is no file
ConfigChangedOnDisk_OnlyIfAbsent(file, vhost_config) == file = NoFile

\* the comparison is taken the wrong way round
ConfigChangedOnDisk_Inverted(file, vhost_config) == file # NoFile /\ file = vhost_config

\* the document is written without looking at the file
ConfigChangedOnDisk_Always(file, vhost_config) == TRUE

\* the test of Apache.configure: must the document be written?
ConfigChangedOnDisk(file, vhost_config) ==
    ~(file # NoFile /\ file = vhost_config)

----------------------------------------------------------------------------
(* The try blocks of the handlers and what each one catches *)

\* Apache.install is called outside of any try block
TryBlock_ApacheInstallUnguarded(h, callee) ==
    IF h = "install" /\ callee = "Versions.install" THEN "environment"
    ELSE IF h = "install" /\ callee = "Apache.configure" THEN "apache_configure"
    ELSE IF h = "start" THEN "start"
    ELSE IF h = "config_changed" /\ callee = "Apache.configure" THEN "apache_configure"
    ELSE IF h = "update_checkout_action" THEN "update_checkout"
    ELSE "none"

\* the try block (by the handler and the callee) a step runs in
TryBlock(h, callee) ==
    IF h = "install" /\ callee = "Versions.install" THEN "environment"
    ELSE IF h = "install" /\ callee = "Versions.setup_crontab" THEN "none"
    ELSE IF h = "install" /\ callee = "Apache.install" THEN "apache_install"
    ELSE IF h = "install" /\ callee = "Apache.configure" THEN "apache_configure"
    ELSE IF h = "start" THEN "start"
    ELSE IF h = "config_changed" /\ callee = "Apache.configure" THEN "apache_configure"
    ELSE IF h = "update_checkout_action" THEN "update_checkout"
    ELSE "none"

\* the except clause of Versions.install forgets PackageError
Caught_WithoutPackageError(block) ==
    IF block = "environment"
        THEN {"CalledProcessError", "PackageNotFoundError"}
    ELSE IF block \in {"apache_install", "apache_configure", "start", "update_checkout"}
        THEN {"CalledProcessError"}
    ELSE {}

\* _on_update_checkout calls update_checkout without an except clause
Caught_UpdateCheckoutUnguarded(block) ==
    IF block = "environment"
        THEN {"CalledProcessError", "PackageError", "PackageNotFoundError"}
    ELSE IF block \in {"apache_install", "apache_configure", "start"}
        THEN {"CalledProcessError"}
    ELSE {}

\* the exception types the except clause of a try block names
Caught(block) ==
    IF block = "environment"
        THEN {"CalledProcessError", "PackageError", "PackageNotFoundError"}
    ELSE IF block \in {"apache_install", "apache_configure", "start", "update_checkout"}
        THEN {"CalledProcessError"}
    ELSE {}

\* the except clause around Apache.configure repeats the message of Apache.install
BlockedMessage_ConfigureAsInstall(block) ==
    IF block = "environment" THEN "Failed to set up the environment"
    ELSE IF block \in {"apache_install", "apache_configure"} THEN "Failed to install Apache"
    ELSE IF block = "start" THEN "Failed to start services"
    ELSE "Failed to update checkout"

\* the status the except clause of a try block sets
BlockedMessage(block) ==
    IF block = "environment" THEN "Failed to set up the environment"
    ELSE IF block = "apache_install" THEN "Failed to install Apache"
    ELSE IF block = "apache_configure" THEN "Failed to configure Apache"
    ELSE IF block = "start" THEN "Failed to start services"
    ELSE "Failed to update checkout"

----------------------------------------------------------------------------
(* State *)

VARIABLES
    pc,                \* position in the running handler, "idle" between events
    handler,           \* the handler running, or the last one run
    outcome,           \* of that handler: "running", "returned", "raised"
    exc,               \* the exception that left the handler, when raised
    status,            \* self.unit.status
    workload_version,  \* as set by self.unit.set_workload_version
    config,            \* self.config
    host,              \* packages, checkout, directories, job table, sites, vhost file
    upstream,          \* newest revision of the upstream repository
    calls,             \* the calls the running handler has made, with their exit
    local,             \* local variables of the handler and its callees
    ingress,           \* ports passed to provide_ingress_requirements by this handler
    action,            \* event.fail / event.set_results of the running action
    pre,               \* status, workload version, job table when the event was dispatched
    conf_calls,        \* the last two calls of Apache.configure
    opened_ports,      \* the ports the unit has opened
    events             \* number of events dispatched

vars == <<pc, handler, outcome, exc, status, workload_version, config, host,
          upstream, calls, local, ingress, action, pre, conf_calls, opened_ports,
          events>>

NoExc == "none"

\* results is the set of <<key, value>> pairs passed to event.set_results
NoAction == [failed |-> FALSE, message |-> "", results |-> {}]

NoLocal == [pkg_i |-> 1, mod_i |-> 1, domain |-> DefaultDomain, port |-> DefaultPort,
            vhost_config |-> NoFile, version |-> <<>>]

NoCheckout == [present |-> FALSE, rev |-> 0, dirty |-> FALSE]

Init ==
    /\ pc = "idle"
    /\ handler = "none"
    /\ outcome = "returned"
    /\ exc = NoExc
    /\ status = UnknownStatus
    /\ workload_version = <<>>
    /\ config \in Configs
    /\ host \in [packages : {{}},
                 checkout : {NoCheckout},
                 dirs : {{}},
                 crontab : {NoJobs, OtherJobs},
                 default_site : {TRUE},
                 workload_site : {FALSE},
                 vhost_file : {NoFile, ForeignDoc},
                 loaded : {NoFile}]
    /\ upstream = 0
    /\ calls = <<>>
    /\ local = NoLocal
    /\ ingress = <<>>
    /\ action = NoAction
    /\ pre = [status |-> UnknownStatus, workload_version |-> <<>>, crontab |-> host.crontab]
    /\ conf_calls = <<>>
    /\ opened_ports = {}
    /\ events = 0

----------------------------------------------------------------------------
(* Control flow helpers *)

\* the call of `cmd` on `arg` was made and exited with `rc`
Call(cmd, arg, rc) == calls' = Append(calls, <<cmd, arg, rc>>)

\* what no step of a handler changes
frame == <<handler, config, upstream, pre, opened_ports, events>>

\* the handler goes on at `label` with status `st`
Goto(label, st) ==
    /\ pc' = label
    /\ status' = st
    /\ UNCHANGED <<outcome, exc, action>>

\* the handler returns with status `st`
Return(st) ==
    /\ pc' = "idle"
    /\ status' = st
    /\ outcome' = "returned"
    /\ UNCHANGED <<exc, action>>

\* exception e leaves `callee` while the status is `st`: the except clause
\* of the enclosing try block sets Blocked and returns, or the exception
\* leaves the handler
Raise(e, callee, st) ==
    LET block == TryBlock(handler, callee) IN
    IF e \in Caught(block)
    THEN IF block = "update_checkout"
         THEN /\ pc' = "idle"
              /\ status' = ActiveStatus
              /\ outcome' = "returned"
              /\ action' = [action EXCEPT !.failed = TRUE, !.message = BlockedMessage(block)]
              /\ UNCHANGED exc
         ELSE Return(BlockedStatus(BlockedMessage(block)))
    ELSE /\ pc' = "idle"
         /\ status' = st
         /\ outcome' = "raised"
         /\ exc' = e
         /\ UNCHANGED action

\* the entry point of each handler
Entry(ev) ==
    IF ev = "install" THEN "apt_update"
    ELSE IF ev = "start" THEN "git_pull"
    ELSE IF ev = "config_changed" THEN "build_vhost_config"
    ELSE IF ev = "refresh_reports_action" THEN "generate_reports"
    ELSE IF ev = "update_checkout_action" THEN "git_pull"
    ELSE ev

----------------------------------------------------------------------------
(* The framework and the environment *)

\* the framework dispatches the next event; a config-changed event comes
\* with the configuration the operator has set
Dispatch ==
    /\ pc = "idle"
    /\ events < MaxEvents
    /\ \E ev \in Events :
        /\ handler' = ev
        /\ pc' = Entry(ev)
        /\ IF ev = "config_changed" THEN config' \in Configs ELSE UNCHANGED config
    /\ events' = events + 1
    /\ outcome' = "running"
    /\ exc' = NoExc
    /\ calls' = <<>>
    /\ local' = NoLocal
    /\ ingress' = <<>>
    /\ action' = NoAction
    /\ pre' = [status |-> status, workload_version |-> workload_version,
               crontab |-> host.crontab]
    /\ UNCHANGED <<status, workload_version, host, upstream, conf_calls, opened_ports>>

\* the Versions object is used outside the charm (see the module docstring of
\* ubuntu_desktop_versions.py): one of its job-table methods is called
DirectCall ==
    /\ pc = "idle"
    /\ events < MaxEvents
    /\ \E method \in {"setup_crontab", "disable_crontab"} :
        pc' = method
    /\ handler' = "direct"
    /\ events' = events + 1
    /\ outcome' = "running"
    /\ exc' = NoExc
    /\ calls' = <<>>
    /\ local' = NoLocal
    /\ ingress' = <<>>
    /\ action' = NoAction
    /\ pre' = [status |-> status, workload_version |-> workload_version,
               crontab |-> host.crontab]
    /\ UNCHANGED <<status, workload_version, config, host, upstream, conf_calls,
                   opened_ports>>

\* somebody pushes a commit to the upstream repository
UpstreamPush ==
    /\ upstream < MaxRev
    /\ upstream' = upstream + 1
    /\ UNCHANGED <<pc, handler, outcome, exc, status, workload_version, config, host,
                   calls, local, ingress, action, pre, conf_calls, opened_ports, events>>

----------------------------------------------------------------------------
(* _on_install: Versions.install *)

\* apt.update() is tried again after it has failed
apt_update_Retrying ==
    LET st == MaintenanceStatus("Setting up environment") IN
    /\ pc = "apt_update"
    /\ \E rc \in Exits :
        /\ Call("apt", "update", rc)
        /\ IF rc = "ok" \/ Len(calls) = 0
           THEN Goto(IF rc = "ok" THEN "add_package" ELSE "apt_update", st)
           ELSE Raise("CalledProcessError", "Versions.install", st)
    /\ UNCHANGED <<host, local, workload_version, ingress, conf_calls, frame>>

\* apt.update()
apt_update ==
    LET st == MaintenanceStatus("Setting up environment") IN
    /\ pc = "apt_update"
    /\ \E rc \in Exits :
        /\ Call("apt", "update", rc)
        /\ IF rc = "ok"
           THEN Goto("add_package", st)
           ELSE Raise("CalledProcessError", "Versions.install", st)
    /\ UNCHANGED <<host, local, workload_version, ingress, conf_calls, frame>>

\* a failed package install removes the packages installed before it
add_package_RollingBack ==
    LET p == PACKAGES[local.pkg_i] IN
    /\ pc = "add_package"
    /\ \E rc \in {"ok", "PackageNotFoundError", "PackageError"} :
        /\ Call("add_package", p, rc)
        /\ IF rc = "ok"
           THEN /\ host' = [host EXCEPT !.packages = @ \cup {p}]
                /\ local' = [local EXCEPT !.pkg_i = @ + 1]
                /\ Goto(IF local.pkg_i = Len(PACKAGES) THEN "git_clone" ELSE "add_package",
                        status)
           ELSE /\ host' = [host EXCEPT !.packages = {}]
                /\ UNCHANGED local
                /\ Raise(rc, "Versions.install", status)
    /\ UNCHANGED <<workload_version, ingress, conf_calls, frame>>

\* apt.add_package(p) for the next p of PACKAGES
add_package ==
    LET p == PACKAGES[local.pkg_i] IN
    /\ pc = "add_package"
    /\ \E rc \in {"ok", "PackageNotFoundError", "PackageError"} :
        /\ Call("add_package", p, rc)
        /\ IF rc = "ok"
           THEN /\ host' = [host EXCEPT !.packages = @ \cup {p}]
                /\ local' = [local EXCEPT !.pkg_i = @ + 1]
                /\ Goto(IF local.pkg_i = Len(PACKAGES) THEN "git_clone" ELSE "add_package",
                        status)
           ELSE /\ UNCHANGED <<host, local>>
                /\ Raise(rc, "Versions.install", status)
    /\ UNCHANGED <<workload_version, ingress, conf_calls, frame>>

\* git clone -b master REPO_URL REPO_LOCATION: fails on an existing checkout
git_clone ==
    /\ pc = "git_clone"
    /\ \E rc \in (IF host.checkout.present THEN {"nonzero"} ELSE Exits) :
        /\ Call("git", "clone", rc)
        /\ IF rc = "ok"
           THEN /\ host' = [host EXCEPT !.checkout =
                               [present |-> TRUE, rev |-> upstream, dirty |-> FALSE]]
                /\ Goto("sed_patch", status)
           ELSE /\ UNCHANGED host
                /\ Raise("CalledProcessError", "Versions.install", status)
    /\ UNCHANGED <<local, workload_version, ingress, conf_calls, frame>>

\* a failed patch is logged and Versions.install goes on
sed_patch_Tolerant ==
    /\ pc = "sed_patch"
    /\ \E rc \in Exits, rewritten \in BOOLEAN :
        /\ Call("sed", "versions.py", rc)
        /\ host' = [host EXCEPT !.checkout.dirty = @ \/ (rc = "ok" /\ rewritten)]
        /\ Goto("mkdir", status)
    /\ UNCHANGED <<local, workload_version, ingress, conf_calls, frame>>

\* sed -i s/Launchpad.login_with(/Launchpad.login_anonymously(/ versions.py:
\* the file is rewritten when it holds the pattern
sed_patch ==
    /\ pc = "sed_patch"
    /\ \E rc \in Exits, rewritten \in BOOLEAN :
        /\ Call("sed", "versions.py", rc)
        /\ IF rc = "ok"
           THEN /\ host' = [host EXCEPT !.checkout.dirty = @ \/ rewritten]
                /\ Goto("mkdir", status)
           ELSE /\ UNCHANGED host
                /\ Raise("CalledProcessError", "Versions.install", status)
    /\ UNCHANGED <<local, workload_version, ingress, conf_calls, frame>>

\* OUTPUT_DIR.mkdir(parents=True, exist_ok=True); LOG_DIR.mkdir(...)
mkdir ==
    /\ pc = "mkdir"
    /\ calls' = calls \o <<(<<"mkdir", OUTPUT_DIR, "ok">>), (<<"mkdir", LOG_DIR, "ok">>)>>
    /\ host' = [host EXCEPT !.dirs = @ \cup {OUTPUT_DIR, LOG_DIR}]
    /\ Goto("chown", status)
    /\ UNCHANGED <<local, workload_version, ingress, conf_calls, frame>>

\* shutil.chown of both directories; LookupError and PermissionError are
\* caught and logged, so the step ends normally whatever chown does
chown ==
    /\ pc = "chown"
    /\ Call("chown", "www-data", "ok")
    /\ Goto("setup_crontab", status)
    /\ UNCHANGED <<host, local, workload_version, ingress, conf_calls, frame>>

----------------------------------------------------------------------------
(* _on_install: Versions.setup_crontab *)

\* crontab src/crontab replaces the whole job table; _on_install sets its
\* status before the call and goes on with Apache.install after it
setup_crontab ==
    LET st == IF handler = "install" THEN MaintenanceStatus("Setting up crontab")
              ELSE status IN
    /\ pc = "setup_crontab"
    /\ \E rc \in Exits :
        /\ Call("crontab", "src/crontab", rc)
        /\ IF rc = "ok"
           THEN /\ host' = [host EXCEPT !.crontab = JobSpec]
                /\ IF handler = "install" THEN Goto("a2enmod", st) ELSE Return(st)
           ELSE /\ UNCHANGED host
                /\ Raise("CalledProcessError", "Versions.setup_crontab", st)
    /\ UNCHANGED <<local, workload_version, ingress, conf_calls, frame>>

----------------------------------------------------------------------------
(* Versions.disable_crontab *)

\* the exits of `crontab -r`: it exits non-zero when there is no job table
\* to remove, and may fail on an existing table as any command may
CrontabRemoveExits(table) == IF table = NoJobs THEN {"nonzero"} ELSE Exits

\* disable_crontab has no except clause
DisableFailureCaught_Nothing == {}

\* the exception types the except clause of disable_crontab names
DisableFailureCaught == {"CalledProcessError"}

\* crontab -r removes the job table; a non-zero exit is logged
disable_crontab ==
    /\ pc = "disable_crontab"
    /\ \E rc \in CrontabRemoveExits(host.crontab) :
        /\ Call("crontab", "-r", rc)
        /\ IF rc = "ok"
           THEN /\ host' = [host EXCEPT !.crontab = NoJobs]
                /\ Return(status)
           ELSE /\ UNCHANGED host
                /\ IF "CalledProcessError" \in DisableFailureCaught
                   THEN Return(status)
                   ELSE Raise("CalledProcessError", "Versions.disable_crontab", status)
    /\ UNCHANGED <<local, workload_version, ingress, conf_calls, frame>>

----------------------------------------------------------------------------
(* Apache.reload *)

\* a failed reload puts the default site back
Reloaded_RestoringDefault(h, rc) ==
    IF rc = "ok"
    THEN [h EXCEPT !.loaded = IF h.workload_site THEN h.vhost_file ELSE NoFile]
    ELSE [h EXCEPT !.default_site = TRUE, !.workload_site = FALSE]

\* what the server has loaded after `systemctl reload apache2` exits with rc
Reloaded(h, rc) ==
    IF rc = "ok"
    THEN [h EXCEPT !.loaded = IF h.workload_site THEN h.vhost_file ELSE NoFile]
    ELSE h

\* the exception a command run with check=True and a timeout ends in
ShortException(rc) ==
    IF rc = "nonzero" THEN "CalledProcessError" ELSE "TimeoutExpired"

----------------------------------------------------------------------------
(* _on_install: Apache.install *)

\* a2enmod runs without an except clause
ModuleFailureCaught_Nothing == {}

\* the exception types the except clause around a2enmod names
ModuleFailureCaught == {"CalledProcessError"}

\* a2enmod for the next module of MODULES; a non-zero exit is logged
a2enmod ==
    LET st == MaintenanceStatus("Installing Apache")
        m  == MODULES[local.mod_i] IN
    /\ pc = "a2enmod"
    /\ \E rc \in ShortExits :
        /\ Call("a2enmod", m, rc)
        /\ IF rc # "ok" /\ ShortException(rc) \notin ModuleFailureCaught
           THEN /\ UNCHANGED local
                /\ Raise(ShortException(rc), "Apache.install", st)
           ELSE /\ local' = [local EXCEPT !.mod_i = @ + 1]
                /\ Goto(IF local.mod_i = Len(MODULES) THEN "unlink_default_site"
                        ELSE "a2enmod", st)
    /\ UNCHANGED <<host, workload_version, ingress, conf_calls, frame>>

\* DEFAULT_SITE.unlink(missing_ok=True)
unlink_default_site ==
    /\ pc = "unlink_default_site"
    /\ Call("unlink", "000-default.conf", "ok")
    /\ host' = [host EXCEPT !.default_site = FALSE]
    /\ Goto("enable_site", status)
    /\ UNCHANGED <<local, workload_version, ingress, conf_calls, frame>>

\* UBUNTU_DESKTOP_VERSIONS_SITE.unlink(missing_ok=True); .symlink_to(...)
enable_site ==
    /\ pc = "enable_site"
    /\ Call("symlink", "ubuntu-desktop-versions.conf", "ok")
    /\ host' = [host EXCEPT !.workload_site = TRUE]
    /\ Goto("install_reload", status)
    /\ UNCHANGED <<local, workload_version, ingress, conf_calls, frame>>

\* self.reload() at the end of Apache.install
install_reload ==
    /\ pc = "install_reload"
    /\ \E rc \in ShortExits :
        /\ Call("systemctl", "reload", rc)
        /\ host' = Reloaded(host, rc)
        /\ IF rc = "ok"
           THEN Goto("build_vhost_config", status)
           ELSE Raise(ShortException(rc), "Apache.install", status)
    /\ UNCHANGED <<local, workload_version, ingress, conf_calls, frame>>

----------------------------------------------------------------------------
(* _on_install and _on_config_changed: build_vhost_config and Apache.configure *)

\* domain and port are read from the configuration and the vhost is rendered
render_vhost ==
    LET domain == ConfigGet(config, "domain", DefaultDomain)
        port   == ConfigGet(config, "port", DefaultPort) IN
    /\ pc = "build_vhost_config"
    /\ Call("build_vhost_config", domain, "ok")
    /\ local' = [local EXCEPT !.domain = domain, !.port = port,
                              !.vhost_config = build_vhost_config(domain, port)]
    /\ Goto("configure", IF handler = "install"
                         THEN MaintenanceStatus("Configuring Apache") ELSE status)
    /\ UNCHANGED <<host, workload_version, ingress, conf_calls, frame>>

\* a call of Apache.configure begins: it is recorded as the last of conf_calls
BeginConfigure(cc, doc, file) ==
    LET rec == [doc |-> doc, before |-> file, writes |-> 0, reloads |-> 0,
                rc |-> "none", done |-> FALSE]
    IN  IF cc = <<>> THEN <<rec>> ELSE <<cc[Len(cc)], rec>>

\* the last call of Apache.configure writes / reloads / ends
NoteWrite(cc) == [cc EXCEPT ![Len(cc)].writes = @ + 1]

NoteReload(cc, rc) == [cc EXCEPT ![Len(cc)].reloads = @ + 1, ![Len(cc)].rc = rc]

NoteDone(cc) == [cc EXCEPT ![Len(cc)].done = TRUE]

\* Apache.configure has returned to the handler
AfterConfigure ==
    IF handler = "install"
    THEN Return(ActiveStatus)
    ELSE Goto("provide_ingress_requirements", status)

\* Apache.configure: return when the file holds the document already
configure ==
    /\ pc = "configure"
    /\ Call("configure", "", "ok")
    /\ IF ConfigChangedOnDisk(host.vhost_file, local.vhost_config)
       THEN /\ conf_calls' = BeginConfigure(conf_calls, local.vhost_config, host.vhost_file)
            /\ Goto("write_text", status)
       ELSE /\ conf_calls' = NoteDone(BeginConfigure(conf_calls, local.vhost_config,
                                                     host.vhost_file))
            /\ AfterConfigure
    /\ UNCHANGED <<host, local, workload_version, ingress, frame>>

\* VHOST_FILE.write_text(vhost_config)
write_text ==
    /\ pc = "write_text"
    /\ Call("write_text", "ubuntu-desktop-versions.conf", "ok")
    /\ host' = [host EXCEPT !.vhost_file = local.vhost_config]
    /\ conf_calls' = NoteWrite(conf_calls)
    /\ Goto("configure_reload", status)
    /\ UNCHANGED <<local, workload_version, ingress, frame>>

\* self.reload() at the end of Apache.configure
configure_reload ==
    /\ pc = "configure_reload"
    /\ \E rc \in ShortExits :
        /\ Call("systemctl", "reload", rc)
        /\ host' = Reloaded(host, rc)
        /\ conf_calls' = NoteDone(NoteReload(conf_calls, rc))
        /\ IF rc = "ok"
           THEN AfterConfigure
           ELSE Raise(ShortException(rc), "Apache.configure", status)
    /\ UNCHANGED <<local, workload_version, ingress, frame>>

\* self.ingress.provide_ingress_requirements(port=port), then Active
provide_ingress_requirements ==
    /\ pc = "provide_ingress_requirements"
    /\ Call("provide_ingress_requirements", "", "ok")
    /\ ingress' = Append(ingress, local.port)
    /\ Return(ActiveStatus)
    /\ UNCHANGED <<host, local, workload_version, conf_calls, frame>>

----------------------------------------------------------------------------
(* _on_start and _on_update_checkout: Versions.update_checkout *)

\* the pull discards the local modifications of the checkout
git_pull_Resetting ==
    LET st == MaintenanceStatus("Updating ubuntu-desktop-versions checkout") IN
    /\ pc = "git_pull"
    /\ \E rc \in (IF host.checkout.present THEN Exits ELSE {"nonzero"}) :
        /\ Call("git", "pull", rc)
        /\ IF rc = "ok"
           THEN /\ host' = [host EXCEPT !.checkout.rev = upstream,
                                        !.checkout.dirty = FALSE]
                /\ Goto("git_describe", st)
           ELSE /\ UNCHANGED host
                /\ Raise("CalledProcessError", "Versions.update_checkout", st)
    /\ UNCHANGED <<local, workload_version, ingress, conf_calls, frame>>

\* git -C REPO_LOCATION pull: fails without a checkout
git_pull ==
    LET st == MaintenanceStatus("Updating ubuntu-desktop-versions checkout") IN
    /\ pc = "git_pull"
    /\ \E rc \in (IF host.checkout.present THEN Exits ELSE {"nonzero"}) :
        /\ Call("git", "pull", rc)
        /\ IF rc = "ok"
           THEN /\ host' = [host EXCEPT !.checkout.rev = upstream]
                /\ Goto("git_describe", st)
           ELSE /\ UNCHANGED host
                /\ Raise("CalledProcessError", "Versions.update_checkout", st)
    /\ UNCHANGED <<local, workload_version, ingress, conf_calls, frame>>

\* git -C REPO_LOCATION describe --tags --always --dirty; result.stdout.strip()
git_describe ==
    /\ pc = "git_describe"
    /\ \E rc \in Exits :
        /\ Call("git", "describe", rc)
        /\ IF rc = "ok"
           THEN /\ local' = [local EXCEPT !.version = Strip(DescribeStdout(host.checkout))]
                /\ Goto("set_workload_version", status)
           ELSE /\ UNCHANGED local
                /\ Raise("CalledProcessError", "Versions.update_checkout", status)
    /\ UNCHANGED <<host, workload_version, ingress, conf_calls, frame>>

\* the action never sets a result
ActionResults_Nothing(h, version) == {}

\* event.set_results({"version": version}) in _on_update_checkout; _on_start
\* has no action to report to
ActionResults(h, version) ==
    IF h = "update_checkout_action" THEN {<<"version", version>>} ELSE {}

\* self.unit.set_workload_version(version); the action also sets its result
set_workload_version ==
    /\ pc = "set_workload_version"
    /\ Call("set_workload_version", "", "ok")
    /\ workload_version' = local.version
    /\ pc' = "idle"
    /\ status' = ActiveStatus
    /\ outcome' = "returned"
    /\ action' = [action EXCEPT !.results = ActionResults(handler, local.version)]
    /\ UNCHANGED <<exc, host, local, ingress, conf_calls, frame>>

----------------------------------------------------------------------------
(* _on_refresh_reports *)

\* what Versions.generate_reports() returns: whether the reports were
\* generated; it does not raise
GenerateReportsReturns == BOOLEAN

\* a false return is ignored
ReportFailure_Ignored(success, act) == act

\* if not success: event.fail("Report generation failed. ...")
ReportFailure(success, act) ==
    IF success THEN act
    ELSE [act EXCEPT !.failed = TRUE, !.message = "Report generation failed"]

\* _on_refresh_reports sets the workload version as well
generate_reports_SettingVersion ==
    /\ pc = "generate_reports"
    /\ \E success \in GenerateReportsReturns :
        /\ Call("generate_reports", "", IF success THEN "ok" ELSE "false")
        /\ action' = ReportFailure(success, action)
    /\ pc' = "idle"
    /\ status' = ActiveStatus
    /\ outcome' = "returned"
    /\ workload_version' = <<"reports">>
    /\ UNCHANGED <<exc, host, local, ingress, conf_calls, frame>>

\* _on_refresh_reports: the action fails when generate_reports returns false
generate_reports ==
    /\ pc = "generate_reports"
    /\ \E success \in GenerateReportsReturns :
        /\ Call("generate_reports", "", IF success THEN "ok" ELSE "false")
        /\ action' = ReportFailure(success, action)
    /\ pc' = "idle"
    /\ status' = ActiveStatus
    /\ outcome' = "returned"
    /\ UNCHANGED <<exc, host, local, workload_version, ingress, conf_calls, frame>>

----------------------------------------------------------------------------
(* _on_ingress_ready, _on_ingress_revoked *)

on_ingress_ready ==
    /\ pc = "ingress_ready"
    /\ Return(status)
    /\ UNCHANGED <<calls, host, local, workload_version, ingress, conf_calls, frame>>

\* the revoked ingress blocks the unit
on_ingress_revoked_Blocking ==
    /\ pc = "ingress_revoked"
    /\ Return(BlockedStatus("Ingress revoked"))
    /\ UNCHANGED <<calls, host, local, workload_version, ingress, conf_calls, frame>>

on_ingress_revoked ==
    /\ pc = "ingress_revoked"
    /\ Return(status)
    /\ UNCHANGED <<calls, host, local, workload_version, ingress, conf_calls, frame>>

----------------------------------------------------------------------------
(* stop *)

\* __init__ observes no stop event: the framework finds no handler to run
stop_unobserved ==
    /\ pc = "stop"
    /\ Return(status)
    /\ UNCHANGED <<calls, host, local, workload_version, ingress, conf_calls, frame>>

----------------------------------------------------------------------------
(* The specification *)

Next ==
    \/ Dispatch
    \/ UpstreamPush
    \/ apt_update
    \/ add_package
    \/ git_clone
    \/ sed_patch
    \/ mkdir
    \/ chown
    \/ setup_crontab
    \/ a2enmod
    \/ unlink_default_site
    \/ enable_site
    \/ install_reload
    \/ render_vhost
    \/ configure
    \/ write_text
    \/ configure_reload
    \/ provide_ingress_requirements
    \/ git_pull
    \/ git_describe
    \/ set_workload_version
    \/ generate_reports
    \/ on_ingress_ready
    \/ on_ingress_revoked
    \/ stop_unobserved

Spec == Init /\ [][Next]_vars

\* the job-table methods of Versions called directly, in any order
NextVersions ==
    \/ DirectCall
    \/ setup_crontab
    \/ disable_crontab

SpecVersions == Init /\ [][NextVersions]_vars

----------------------------------------------------------------------------
(* Reading the record of calls *)

\* the positions of calls at which `cmd` was called
CallsOf(cmd) == {i \in 1..Len(calls) : calls[i][1] = cmd}

Called(cmd) == CallsOf(cmd) # {}

\* the calls made from Versions.install
EnvironmentCmds == {"apt", "add_package", "git", "sed", "mkdir", "chown"}

\* a step of Versions.install failed with the exception `e`
EnvironmentFailedWith(e) ==
    \E i \in 1..Len(calls) :
        /\ calls[i][1] \in EnvironmentCmds
        /\ \/ e = "CalledProcessError" /\ calls[i][3] = "nonzero"
           \/ e # "CalledProcessError" /\ calls[i][3] = e

\* the reloads of Apache.install: those made before configure is called
InstallReloads == {i \in CallsOf("systemctl") : \A j \in 1..i : calls[j][1] # "configure"}

\* the handler h has ended
Ended(h) == handler = h /\ pc = "idle"

\* the port the configuration holds, 80 when it holds none
ConfiguredPort == IF "port" \in config.keys THEN config.port ELSE 80

ConfiguredDomain == IF "domain" \in config.keys THEN config.domain ELSE "localhost"

\* the vhost document for a domain and a port, written out piece by piece
ExpectedVhost(domain, port) ==
    <<"<VirtualHost *:", ToString(port), ">", "ServerName ", domain,
      "DocumentRoot /var/www/html/versions", "</VirtualHost>">>

----------------------------------------------------------------------------
(* Install: failures *)

\* C1: in the Install handler, when Versions.install fails with
\* PackageNotFoundError, PackageError or CalledProcessError, the handler
\* ends with Blocked("Failed to set up the environment") and neither the
\* crontab setup, Apache.install, build_vhost_config nor Apache.configure
\* is called.
C1_EnvironmentFailureBlocks ==
    \A e \in {"PackageNotFoundError", "PackageError", "CalledProcessError"} :
        (handler = "install" /\ EnvironmentFailedWith(e)) =>
            /\ pc = "idle"
            /\ outcome = "returned"
            /\ status = <<"blocked", "Failed to set up the environment">>
            /\ \A i \in 1..Len(calls) : calls[i][1] \in EnvironmentCmds

C1_Witness ==
    /\ Ended("install")
    /\ EnvironmentFailedWith("PackageError")
    /\ host.packages # {}

\* C2: in the Install handler, when Apache.install fails with a command
\* error (its reload exits non-zero), the handler ends with
\* Blocked("Failed to install Apache") and Apache.configure is not called.
C2_ApacheInstallFailureBlocks ==
    (handler = "install" /\ \E i \in InstallReloads : calls[i][3] = "nonzero") =>
        /\ pc = "idle"
        /\ outcome = "returned"
        /\ status = <<"blocked", "Failed to install Apache">>
        /\ ~Called("configure")
        /\ ~Called("write_text")
        /\ ~Called("build_vhost_config")

C2_Witness ==
    /\ Ended("install")
    /\ \E i \in InstallReloads : calls[i][3] = "nonzero"
    /\ host.workload_site

\* C3: in the Install handler, a non-zero exit of any command that is not
\* best-effort (module enabling is) ends the handler with a Blocked status
\* and no later step runs; so does a non-zero exit of `crontab src/crontab`.
C3_NonzeroExitBlocks ==
    (handler = "install" /\ \E i \in 1..Len(calls) :
                                calls[i][3] = "nonzero" /\ calls[i][1] # "a2enmod") =>
        /\ pc = "idle"
        /\ status[1] = "blocked"
        /\ calls[Len(calls)][3] = "nonzero"

\* C4: when every step of the Install handler succeeds, the status is Active,
\* the job table is the fixed job spec, the workload site is enabled, the
\* default site is not, and the vhost file holds the document rendered from
\* the configured domain and port.
C4_InstallSuccess ==
    (Ended("install") /\ \A i \in 1..Len(calls) : calls[i][3] = "ok") =>
        /\ outcome = "returned"
        /\ status = <<"active", "">>
        /\ host.crontab = JobSpec
        /\ host.workload_site
        /\ ~host.default_site
        /\ host.vhost_file = ExpectedVhost(ConfiguredDomain, ConfiguredPort)

C4_Witness ==
    /\ Ended("install")
    /\ \A i \in 1..Len(calls) : calls[i][3] = "ok"
    /\ Called("write_text")
    /\ config.keys = {"domain", "port"}
    /\ config.port = 8080

----------------------------------------------------------------------------
(* ConfigChanged *)

\* C5: in the ConfigChanged handler, when Apache.configure fails (its reload
\* exits non-zero), the handler ends with Blocked("Failed to configure
\* Apache"); and whenever configure does not return normally,
\* provide_ingress_requirements is not called.
C5_ConfigureFailureBlocks ==
    /\ (handler = "config_changed" /\ \E i \in CallsOf("systemctl") : calls[i][3] = "nonzero") =>
            /\ pc = "idle"
            /\ outcome = "returned"
            /\ status = <<"blocked", "Failed to configure Apache">>
    /\ (handler = "config_changed" /\ \E i \in CallsOf("systemctl") : calls[i][3] # "ok") =>
            /\ ingress = <<>>
            /\ ~Called("provide_ingress_requirements")

C5_Witness ==
    /\ Ended("config_changed")
    /\ \E i \in CallsOf("systemctl") : calls[i][3] = "nonzero"
    /\ ConfiguredPort = 8080
    /\ host.vhost_file = ExpectedVhost(ConfiguredDomain, 8080)

\* C6: in the ConfigChanged handler, when Apache.configure returns normally
\* (having written or not), provide_ingress_requirements is called exactly
\* once, with the port of the configuration (80 when it holds none), which
\* is the port the vhost was rendered with, and the status is Active.
C6_IngressGetsConfiguredPort ==
    (Ended("config_changed") /\ Called("configure")
        /\ \A i \in CallsOf("systemctl") : calls[i][3] = "ok") =>
        /\ ingress = <<ConfiguredPort>>
        /\ Cardinality(CallsOf("provide_ingress_requirements")) = 1
        /\ local.vhost_config = ExpectedVhost(ConfiguredDomain, ConfiguredPort)
        /\ outcome = "returned"
        /\ status = <<"active", "">>

\* the port is the one of the previous event and nothing was written
C6_Witness ==
    /\ Ended("config_changed")
    /\ Called("configure")
    /\ ~Called("write_text")
    /\ "port" \notin config.keys
    /\ ingress = <<80>>

----------------------------------------------------------------------------
(* Apache.configure *)

\* C7: a call of Apache.configure(d) writes d exactly once and then reloads
\* exactly once when the vhost file is absent or differs from d, and neither
\* writes nor reloads when the file holds d.
C7_ConfigureWritesIffChanged ==
    \A i \in 1..Len(conf_calls) :
        LET c == conf_calls[i] IN
        /\ c.reloads <= c.writes
        /\ c.writes <= 1
        /\ (c.writes = 1 /\ i = Len(conf_calls)) => host.vhost_file = c.doc
        /\ c.done =>
            IF c.before = NoFile \/ c.before # c.doc
            THEN c.writes = 1 /\ c.reloads = 1
            ELSE c.writes = 0 /\ c.reloads = 0

C7_Witness ==
    /\ Len(conf_calls) = 2
    /\ conf_calls[1].done /\ conf_calls[1].before = ForeignDoc /\ conf_calls[1].writes = 1
    /\ conf_calls[2].done /\ conf_calls[2].before = conf_calls[2].doc
    /\ conf_calls[2].writes = 0

\* C8: two consecutive calls of Apache.configure with the same document
\* write at most once and reload at most once together, whether or not the
\* reload of the first call succeeded.
C8_ConfigureIdempotent ==
    (/\ Len(conf_calls) = 2
     /\ conf_calls[1].doc = conf_calls[2].doc) =>
        /\ conf_calls[1].writes + conf_calls[2].writes <= 1
        /\ conf_calls[1].reloads + conf_calls[2].reloads <= 1

C8_Witness ==
    /\ Len(conf_calls) = 2
    /\ conf_calls[1].doc = conf_calls[2].doc
    /\ conf_calls[1].rc = "nonzero"
    /\ conf_calls[2].done

----------------------------------------------------------------------------
(* Apache.install *)

\* C9: in Apache.install, a non-zero exit of a2enmod for one module does not
\* abort the install: a2enmod is still run for every module, then the
\* default site is disabled, the workload site enabled and the server
\* reloaded, and Apache.install fails only if that reload does.
C9_ModuleFailureNotFatal ==
    (/\ handler = "install"
     /\ \E i \in CallsOf("a2enmod") : calls[i][3] = "nonzero"
     /\ \A i \in CallsOf("a2enmod") : calls[i][3] # "timeout"
     /\ pc = "idle") =>
        /\ \A m \in 1..Len(MODULES) :
              Cardinality({i \in CallsOf("a2enmod") : calls[i][2] = MODULES[m]}) = 1
        /\ \E i \in CallsOf("unlink"), j \in CallsOf("symlink"), k \in InstallReloads :
              /\ \A a \in CallsOf("a2enmod") : a < i
              /\ i < j /\ j < k
        /\ ~host.default_site
        /\ host.workload_site
        /\ (\A k \in InstallReloads : calls[k][3] = "ok") =>
              /\ Called("build_vhost_config")
              /\ status # <<"blocked", "Failed to install Apache">>

C9_Witness ==
    /\ Ended("install")
    /\ \E i \in CallsOf("a2enmod") : calls[i][2] = "headers" /\ calls[i][3] = "nonzero"
    /\ status = <<"active", "">>

----------------------------------------------------------------------------
(* Start *)

\* C10: the Start handler always pulls; when the update succeeds the
\* workload version is the version string of the checkout as pulled and the
\* status is Active; when it fails the status is Blocked("Failed to start
\* services") and the workload version is the one from before the event.
C10_Start ==
    Ended("start") =>
        /\ calls # <<>>
        /\ calls[1][1] = "git"
        /\ calls[1][2] = "pull"
        /\ IF \A i \in CallsOf("git") : calls[i][3] = "ok"
           THEN /\ workload_version =
                      <<"g", ToString(host.checkout.rev)>>
                         \o (IF host.checkout.dirty THEN <<"-dirty">> ELSE <<>>)
                /\ outcome = "returned"
                /\ status = <<"active", "">>
           ELSE /\ outcome = "returned"
                /\ status = <<"blocked", "Failed to start services">>
                /\ workload_version = pre.workload_version

\* a Start whose pull went through and whose describe failed
C10_Witness ==
    /\ Ended("start")
    /\ \E i \in CallsOf("git") : calls[i][2] = "pull" /\ calls[i][3] = "ok"
    /\ \E i \in CallsOf("git") : calls[i][2] = "describe" /\ calls[i][3] = "nonzero"
    /\ host.checkout.rev > 0
    /\ workload_version = pre.workload_version

----------------------------------------------------------------------------
(* The on-demand actions *)

\* every git call of the handler exited with zero
GitAllOk == \A i \in CallsOf("git") : calls[i][3] = "ok"

\* what `git describe --tags --always --dirty` names the checkout, without
\* the newline that ends the output
DescribedVersion ==
    IF host.checkout.dirty
    THEN <<"g", ToString(host.checkout.rev), "-dirty">>
    ELSE <<"g", ToString(host.checkout.rev)>>

\* C11: when the update-checkout action succeeds, its result is exactly
\* {version: v} and the workload version is the same v, v being the trimmed
\* output of the describe query; the action is not failed.
C11_UpdateCheckoutSucceeds ==
    (Ended("update_checkout_action") /\ GitAllOk)
        => /\ action.results = {<<"version", DescribedVersion>>}
           /\ workload_version = DescribedVersion
           /\ ~action.failed
           /\ outcome = "returned"

\* the action has updated a checkout to a commit pushed after the clone
C11_Witness ==
    /\ Ended("update_checkout_action")
    /\ GitAllOk
    /\ host.checkout.rev > 0
    /\ action.results = {<<"version", <<"g", "1">> >>}
    /\ workload_version = <<"g", "1">>

\* C12: when the checkout update of the update-checkout action fails, the
\* action is failed with "Failed to update checkout", no result is set and
\* the workload version is the one from before the action.
C12_UpdateCheckoutFails ==
    (Ended("update_checkout_action") /\ ~GitAllOk)
        => /\ action.failed
           /\ action.message = "Failed to update checkout"
           /\ action.results = {}
           /\ workload_version = pre.workload_version
           /\ outcome = "returned"

\* the pull went through and the describe query failed
C12_Witness ==
    /\ Ended("update_checkout_action")
    /\ \E i \in CallsOf("git") : calls[i][2] = "pull" /\ calls[i][3] = "ok"
    /\ \E i \in CallsOf("git") : calls[i][2] = "describe" /\ calls[i][3] = "nonzero"
    /\ action.failed
    /\ action.results = {}

\* an on-demand action has ended failed
ActionFailed ==
    /\ pc = "idle"
    /\ handler \in {"refresh_reports_action", "update_checkout_action"}
    /\ action.failed

\* C13: a failing on-demand action leaves the unit status as it was before
\* the action, a Blocked status of an earlier failed handler included.
C13_FailedActionKeepsStatus ==
    (ActionFailed /\ pre.status[1] = "blocked") => status = pre.status

\* C14: in the refresh-reports action, when the report generation returns
\* false the action is failed with "Report generation failed" and the handler
\* ends in Active; when it returns true the action is not failed and the
\* handler ends in Active.
C14_RefreshReports ==
    Ended("refresh_reports_action")
        => /\ status = ActiveStatus
           /\ outcome = "returned"
           /\ Len(calls) = 1
           /\ calls[1][1] = "generate_reports"
           /\ IF calls[1][3] = "false"
              THEN action.failed /\ action.message = "Report generation failed"
              ELSE ~action.failed /\ action.message = ""

\* the report generation has returned false
C14_Witness ==
    /\ Ended("refresh_reports_action")
    /\ calls[1][3] = "false"
    /\ action.failed
    /\ status = ActiveStatus

----------------------------------------------------------------------------
(* The scheduled job *)

\* the last call of the handler
LastCall == calls[Len(calls)]

\* C15: the scheduled job is created on Install and removed on Stop: after a
\* Stop event has been handled the job-table entry of the charm is absent
\* and the handler has completed.
C15_StopRemovesJob ==
    Ended("stop") => (host.crontab # JobSpec /\ outcome = "returned")

\* a direct call of disable_crontab has ended
DisableEnded ==
    /\ Ended("direct")
    /\ calls # <<>>
    /\ LastCall[1] = "crontab"
    /\ LastCall[2] = "-r"

\* C16 as stated: disable_crontab returns normally whether or not a job
\* table exists, and afterwards no job table exists.
C16_DisableLeavesNoTable ==
    DisableEnded => (outcome = "returned" /\ exc = NoExc /\ host.crontab = NoJobs)

\* C16: disable_crontab never raises on a non-zero exit of `crontab -r` and
\* returns normally whether or not a job table exists; afterwards no job
\* table exists when the command exited with zero, and the job table is the
\* one from before the call (none, when there was none) when it did not.
C16_DisableNeverRaises ==
    DisableEnded
        => /\ outcome = "returned"
           /\ exc = NoExc
           /\ host.crontab = IF LastCall[3] = "ok" THEN NoJobs ELSE pre.crontab
           /\ (pre.crontab = NoJobs => host.crontab = NoJobs)

\* disable_crontab was called without a job table and the command exited
\* with non-zero
C16_Witness ==
    /\ DisableEnded
    /\ LastCall[3] = "nonzero"
    /\ pre.crontab = NoJobs
    /\ outcome = "returned"

----------------------------------------------------------------------------
(* Timeouts *)

\* the position of a call that exceeded its timeout
TimedOut(cmd) == {i \in CallsOf(cmd) : calls[i][3] = "timeout"}

\* C17: a timeout of a short command has the consequences of a non-zero
\* exit: after a timed-out a2enmod Apache.install goes on, and a timed-out
\* reload ends Install and ConfigChanged in the Blocked status of the stage.
C17_TimeoutIsFailure ==
    /\ (handler = "install" /\ pc = "idle" /\ TimedOut("a2enmod") # {})
            => Called("symlink")
    /\ (pc = "idle" /\ handler \in {"install", "config_changed"}
            /\ TimedOut("systemctl") # {})
            => /\ outcome = "returned"
               /\ status = IF TimedOut("systemctl") \subseteq InstallReloads
                           THEN BlockedStatus("Failed to install Apache")
                           ELSE BlockedStatus("Failed to configure Apache")

----------------------------------------------------------------------------
(* Install: the order of the steps *)

\* the commands of a complete Install, in the order the claim gives: index
\* refresh, package installs, clone, patch, directories, job table, modules,
\* default site, workload site, reload, render, configure (write and reload)
InstallPlan ==
    <<"apt", "add_package", "add_package", "add_package", "add_package", "add_package",
      "git", "sed", "mkdir", "mkdir", "chown", "crontab",
      "a2enmod", "a2enmod", "a2enmod", "unlink", "symlink", "systemctl",
      "build_vhost_config", "configure", "write_text", "systemctl">>

\* the call at position i ended the handler: any exit but zero, except the
\* non-zero exit of a2enmod, which is logged
Fatal(i) ==
    /\ calls[i][3] # "ok"
    /\ ~(calls[i][1] = "a2enmod" /\ calls[i][3] = "nonzero")

\* the calls of Install are a prefix of the plan, a fatal failure is the
\* last call, and the effect of every call that went through is on the host
InstallInOrder ==
    handler = "install"
        => /\ Len(calls) <= Len(InstallPlan)
           /\ \A i \in 1..Len(calls) :
                /\ calls[i][1] = InstallPlan[i]
                /\ Fatal(i) => (i = Len(calls) /\ pc = "idle")
                /\ (calls[i][1] = "add_package" /\ calls[i][3] = "ok")
                       => (calls[i][2] = PACKAGES[i - 1] /\ calls[i][2] \in host.packages)
                /\ (calls[i][1] = "git" /\ calls[i][3] = "ok")
                       => (calls[i][2] = "clone" /\ host.checkout.present)
                /\ calls[i][1] = "mkdir" => calls[i][2] \in host.dirs
                /\ (calls[i][1] = "crontab" /\ calls[i][3] = "ok")
                       => host.crontab = JobSpec
                /\ calls[i][1] = "a2enmod" => calls[i][2] = MODULES[i - 12]
                /\ calls[i][1] = "unlink" => ~host.default_site
                /\ calls[i][1] = "symlink" => host.workload_site
                /\ calls[i][1] = "write_text" => host.vhost_file = local.vhost_config

\* the host changes only by a call that went through, nothing changes it
\* between two handlers, and no change takes back an earlier one
HostForwardOnly ==
    /\ host' # host
          => /\ pc # "idle"
             /\ Len(calls') > Len(calls)
             /\ calls'[Len(calls')][3] = "ok"
    /\ host.packages \subseteq host'.packages
    /\ host.dirs \subseteq host'.dirs
    /\ host.checkout.present => host'.checkout.present
    /\ (host.crontab = JobSpec) => (host'.crontab = JobSpec)
    /\ ~host.default_site => ~host'.default_site
    /\ host.workload_site => host'.workload_site
    /\ (host.vhost_file # NoFile) => (host'.vhost_file # NoFile)

\* C18: handlers are forward-only: the steps of Install run in the order
\* index refresh, package installs, clone, patch, directories, job table,
\* module enables, default-site disable, workload-site enable, reload,
\* render, configure; at the first fatal failure every effect of the steps
\* before it stays on the host and no later step runs or has an effect.
C18_ForwardOnly == []InstallInOrder /\ [][HostForwardOnly]_vars

\* Install has failed at the reload of Apache.install: packages, checkout,
\* directories, job table and site links are in place, nothing was rendered
C18_Witness ==
    /\ Ended("install")
    /\ Len(calls) = 18
    /\ LastCall = <<"systemctl", "reload", "nonzero">>
    /\ host.packages = {PACKAGES[i] : i \in 1..Len(PACKAGES)}
    /\ host.checkout.present
    /\ host.crontab = JobSpec
    /\ ~host.default_site
    /\ host.workload_site
    /\ local.vhost_config = NoFile

\* C19: Install is idempotent: after a fully successful Install a second
\* Install, in which only a clone into the existing checkout could fail,
\* ends in Active again.
C19_SecondInstallActive ==
    (/\ Ended("install")
     /\ pre.status = ActiveStatus
     /\ pre.crontab = JobSpec
     /\ host.checkout.present
     /\ host.packages = {PACKAGES[i] : i \in 1..Len(PACKAGES)}
     /\ host.workload_site
     /\ \A i \in 1..Len(calls) :
            calls[i][3] # "ok" => (calls[i][1] = "git" /\ calls[i][2] = "clone"))
        => (status = ActiveStatus /\ outcome = "returned")

----------------------------------------------------------------------------
(* The sites *)

\* the default site is disabled and the site of the workload is enabled
SitesSwitched == ~host.default_site /\ host.workload_site

\* C20: no handler re-enables the default site: once Apache.install has
\* passed its site-enablement steps the default-site link is absent and the
\* workload-site link is present in every later state, whatever events
\* follow and even if the reload after the steps failed.
C20_DefaultSiteStaysDisabled ==
    /\ []((handler = "install" /\ Called("symlink")) => SitesSwitched)
    /\ [][SitesSwitched => SitesSwitched']_vars

\* a later ConfigChanged has written the vhost after an Install whose
\* reload failed, and the sites are as Apache.install left them
C20_Witness ==
    /\ handler = "config_changed"
    /\ pre.status = BlockedStatus("Failed to install Apache")
    /\ Called("write_text")
    /\ SitesSwitched

----------------------------------------------------------------------------
(* The vhost document *)

\* the handler has passed its configure step: configure was called and has
\* skipped, or has written the document
ConfigurePassed ==
    /\ handler \in {"install", "config_changed"}
    /\ Called("configure")
    /\ pc # "write_text"

\* C21: whenever an Install or ConfigChanged handler has passed its configure
\* step (written, skipped, or failed at the reload), the vhost document on
\* disk is the document rendered from the domain and port of the handler's
\* configuration; no other handler changes the vhost document.
C21_VhostOnDisk ==
    /\ [](ConfigurePassed
            => host.vhost_file = ExpectedVhost(ConfiguredDomain, ConfiguredPort))
    /\ [][handler' \notin {"install", "config_changed"}
            => host'.vhost_file = host.vhost_file]_vars

\* a ConfigChanged has written the document of a new configuration over the
\* one Install wrote, and its reload failed
C21_Witness ==
    /\ Ended("config_changed")
    /\ Len(conf_calls) = 2
    /\ conf_calls[1].writes = 1
    /\ conf_calls[1].doc # conf_calls[2].doc
    /\ conf_calls[2].rc = "nonzero"
    /\ host.vhost_file = ExpectedVhost("example.com", 8080)

\* C22: build_vhost_config is pure and deterministic: the document is a
\* function of the domain and the port alone and rendering changes nothing
\* on the host, so a ConfigChanged that repeats the domain and port whose
\* document the last configure call applied writes nothing and reloads
\* nothing.
C22_RenderIsPure ==
    /\ [](/\ local.vhost_config # NoFile
              => local.vhost_config = ExpectedVhost(local.domain, local.port)
          /\ (/\ handler = "config_changed"
              /\ Len(conf_calls) = 2
              /\ conf_calls[2].doc = local.vhost_config
              /\ conf_calls[1].doc = ExpectedVhost(ConfiguredDomain, ConfiguredPort))
              => (conf_calls[2].writes = 0 /\ conf_calls[2].reloads = 0))
    /\ [][pc = "build_vhost_config" => host' = host]_vars

\* after an Install for port 8080 a ConfigChanged with the same domain and
\* port has gone through configure without a write
C22_Witness ==
    /\ Ended("config_changed")
    /\ ConfiguredPort = 8080
    /\ Len(conf_calls) = 2
    /\ conf_calls[1].writes = 1
    /\ conf_calls[1].doc = ExpectedVhost(ConfiguredDomain, 8080)
    /\ conf_calls[2].done
    /\ conf_calls[2].writes = 0
    /\ ~Called("write_text")
    /\ status = ActiveStatus

----------------------------------------------------------------------------
(* Opened ports *)

\* a Start or ConfigChanged handler has ended
StartOrConfigEnded == pc = "idle" /\ handler \in {"start", "config_changed"}

\* C23: after a Start or ConfigChanged that succeeds the opened ports of the
\* unit are exactly the configured port (80 by default); after one that
\* fails, with no port opened before, no port is opened.
C23_OpenedPorts ==
    /\ (StartOrConfigEnded /\ outcome = "returned" /\ status = ActiveStatus)
            => opened_ports = {ConfiguredPort}
    /\ (StartOrConfigEnded /\ status # ActiveStatus) => opened_ports = {}

----------------------------------------------------------------------------
(* The ingress handlers *)

\* a step of _on_ingress_ready or _on_ingress_revoked, its dispatch included
IngressStep == handler' \in {"ingress_ready", "ingress_revoked"}

\* C24: the IngressReady and IngressRevoked handlers are passive: they change
\* neither the unit status, the workload version, the vhost document, the
\* site links, the job table nor the checkout.
C24_IngressPassive ==
    [][IngressStep
        => /\ status' = status
           /\ workload_version' = workload_version
           /\ host'.vhost_file = host.vhost_file
           /\ host'.default_site = host.default_site
           /\ host'.workload_site = host.workload_site
           /\ host'.crontab = host.crontab
           /\ host'.checkout = host.checkout
           /\ outcome' # "raised"]_vars

\* an IngressRevoked has ended on an installed, active unit
C24_Witness ==
    /\ Ended("ingress_revoked")
    /\ outcome = "returned"
    /\ status = ActiveStatus
    /\ host.workload_site
    /\ host.crontab = JobSpec
    /\ host.checkout.present

----------------------------------------------------------------------------
(* Retries *)

\* the calls at positions i and j run the same command on the same argument
SameCommand(i, j) == calls[i][1] = calls[j][1] /\ calls[i][2] = calls[j][2]

\* the external commands, as opposed to the calls inside the charm
ExternalCmds == {"apt", "add_package", "git", "sed", "crontab", "a2enmod", "systemctl"}

\* C25 as stated: while handling one event each external command is invoked
\* at most once: the last call never repeats an earlier one.
C25_EachCommandOnce ==
    \A i \in 1..Len(calls) - 1 :
        calls[i][1] \in ExternalCmds => ~SameCommand(i, Len(calls))

\* C25: there are no retries: while handling one event no external command
\* is invoked again after it has failed, and each is invoked at most once,
\* except the reload, which Install invokes once at the end of
\* Apache.install and, after that one succeeded, once more in
\* Apache.configure after the vhost document is written.  The record of
\* calls only grows while a handler runs, so it is enough that in no state
\* the last call repeats an earlier one.
C25_NoRetries ==
    \A i \in 1..Len(calls) - 1 :
        (calls[i][1] \in ExternalCmds /\ SameCommand(i, Len(calls)))
            => /\ calls[i][1] = "systemctl"
               /\ calls[i][3] = "ok"
               /\ handler = "install"
               /\ i \in InstallReloads
               /\ calls[Len(calls) - 1][1] = "write_text"

\* an Install in which a module enable failed has gone on to the end and
\* has reloaded twice
C25_Witness ==
    /\ Ended("install")
    /\ \E i \in CallsOf("a2enmod") : calls[i][3] = "nonzero"
    /\ Cardinality(CallsOf("systemctl")) = 2
    /\ LastCall[3] = "nonzero"

----------------------------------------------------------------------------
(* Versions.update_checkout *)

\* a handler that calls Versions.update_checkout is running or has ended
UpdatingCheckout == handler \in {"start", "update_checkout_action"}

\* C26: update_checkout runs the describe query only after the pull has
\* succeeded; the pull brings the checkout to the upstream revision and the
\* version returned describes that checkout; when the pull or the describe
\* exits non-zero no version is returned and the error reaches the handler.
C26_DescribeAfterPull ==
    /\ [](UpdatingCheckout
            => /\ \A i \in CallsOf("git") :
                    calls[i][2] = "describe"
                        => (i = 2 /\ calls[1] = <<"git", "pull", "ok">>)
               /\ local.version # <<>>
                    => (GitAllOk /\ Len(calls) >= 2 /\ local.version = DescribedVersion)
               /\ (pc = "idle" /\ ~GitAllOk)
                    => /\ local.version = <<>>
                       /\ ~Called("set_workload_version")
                       /\ IF handler = "start"
                          THEN status = BlockedStatus("Failed to start services")
                          ELSE action.failed)
    /\ [][(UpdatingCheckout /\ pc = "git_pull" /\ pc' = "git_describe")
            => host'.checkout.rev = upstream]_vars

\* update_checkout has just returned the version of a pulled revision to
\* _on_start, which has not set it yet
C26_Witness ==
    /\ handler = "start"
    /\ pc = "set_workload_version"
    /\ host.checkout.rev = 1
    /\ local.version = <<"g", "1">>
    /\ workload_version = <<>>

----------------------------------------------------------------------------
(* What is loaded, and the status at the end *)

\* C27: whenever an Install or ConfigChanged handler ends in Active on a
\* host whose workload site is enabled, the server has been reloaded after
\* the last write of the vhost document: what the server has loaded is the
\* document on disk.
C27_ActiveMeansLoaded ==
    (/\ pc = "idle"
     /\ handler \in {"install", "config_changed"}
     /\ status = ActiveStatus
     /\ host.workload_site)
        => host.loaded = host.vhost_file

\* the handlers that set a status
StatusHandlers ==
    {"install", "start", "config_changed", "refresh_reports_action",
     "update_checkout_action"}

\* C28: every Install, Start, ConfigChanged, refresh-reports and
\* update-checkout handler ends in Active or Blocked whatever its commands
\* exit with (zero or non-zero): none ends in a Maintenance status.
C28_EndsActiveOrBlocked ==
    (/\ pc = "idle"
     /\ handler \in StatusHandlers
     /\ \A i \in 1..Len(calls) : calls[i][3] # "timeout")
        => status[1] \in {"active", "blocked"}

----------------------------------------------------------------------------
(* The workload version *)

\* C29: the workload version is changed only by a successful checkout
\* update in the Start handler or the update-checkout action, which sets it
\* to the version update_checkout returned; every other handler leaves it
\* as it is, and it is unset or the trimmed describe output of a checkout.
C29_VersionOnlyByUpdate ==
    /\ [](/\ workload_version # <<>>
              => /\ workload_version[1] = "g"
                 /\ workload_version[Len(workload_version)] # "\n"
          /\ (pc = "idle" /\ UpdatingCheckout /\ GitAllOk)
              => workload_version = DescribedVersion)
    /\ [][workload_version' # workload_version
            => /\ UpdatingCheckout
               /\ pc = "set_workload_version"
               /\ GitAllOk
               /\ Cardinality(CallsOf("git")) = 2
               /\ local.version # <<>>
               /\ workload_version' = local.version]_vars

\* a Start has set the version of a patched checkout on a unit that had none
C29_Witness ==
    /\ Ended("start")
    /\ pre.workload_version = <<>>
    /\ host.checkout.dirty
    /\ workload_version = <<"g", ToString(host.checkout.rev), "-dirty">>

----------------------------------------------------------------------------
(* Reloading with the site enabled *)

\* C30: whenever the server is reloaded while the workload site is enabled,
\* the vhost document the link points to is on disk; in the first Install
\* the document is written before the site is enabled and the server
\* reloaded.
C30_VhostBeforeEnable ==
    /\ (calls # <<>> /\ LastCall[1] = "systemctl" /\ host.workload_site)
            => host.vhost_file # NoFile
    /\ (handler = "install" /\ Called("symlink")) => Called("write_text")

----------------------------------------------------------------------------
(* The login patch *)

\* C31: in Versions.install the patch is attempted once, right after a
\* clone that succeeded and before the directories are created; it is not
\* attempted when the clone failed; a non-zero exit of the patch ends install:
\* the directories are not created and the Install handler ends Blocked.
C31_PatchAfterClone ==
    handler = "install"
        => /\ Cardinality(CallsOf("sed")) <= 1
           /\ \A i \in 1..Len(calls) :
                /\ calls[i][1] = "sed"
                     => /\ i > 1
                        /\ calls[i - 1] = <<"git", "clone", "ok">>
                        /\ \A j \in 1..i : calls[j][1] # "mkdir"
                /\ calls[i][1] = "git"
                     => IF calls[i][3] = "ok"
                        THEN IF i = Len(calls) THEN pc = "sed_patch"
                             ELSE calls[i + 1][1] = "sed"
                        ELSE i = Len(calls) /\ ~Called("sed")
                /\ (calls[i][1] = "sed" /\ calls[i][3] # "ok")
                     => /\ i = Len(calls)
                        /\ pc = "idle"
                        /\ host.dirs = {}
                        /\ outcome = "returned"
                        /\ status = BlockedStatus("Failed to set up the environment")

\* the patch has failed on a fresh clone: Install is Blocked, the checkout
\* is there and the directories are not
C31_Witness ==
    /\ Ended("install")
    /\ LastCall = <<"sed", "versions.py", "nonzero">>
    /\ host.checkout.present
    /\ host.dirs = {}
    /\ status = BlockedStatus("Failed to set up the environment")

\* C32: once the patch of an Install has rewritten the file the checkout
\* has local modifications that no later step removes, so every workload
\* version recorded from then on ends in the dirty suffix.
C32_PatchedCheckoutIsDirty ==
    /\ []((host.checkout.dirty /\ workload_version # <<>>)
            => workload_version[Len(workload_version)] = "-dirty")
    /\ [][host.checkout.dirty => host'.checkout.dirty]_vars

\* the update-checkout action has pulled a new revision into a patched
\* checkout and recorded its version
C32_Witness ==
    /\ Ended("update_checkout_action")
    /\ host.checkout.dirty
    /\ host.checkout.rev = 1
    /\ workload_version = <<"g", "1", "-dirty">>
    /\ action.results = {<<"version", workload_version>>}

====
